---- MODULE Spec2Model ----
(***************************************************************************)
(* Model of main.py: the keyword expansion stage (scrape_keywords and its  *)
(* keyword_worker threads over the shared globals task_queue, collected,   *)
(* depth_map, keyword_source, keyword_tree) and the video harvest stage    *)
(* (scrape_videos and scrape_single_keyword over the output CSV).          *)
(*                                                                         *)
(* A step of a worker is one access to shared state: CPython runs one      *)
(* bytecode-level dictionary, set or queue operation at a time, and the    *)
(* `with lock` blocks of keyword_worker are atomic with respect to each    *)
(* other.                                                                  *)
(***************************************************************************)
EXTENDS Integers, Sequences, FiniteSets, Bags, TLC

\* ---------------------------------------------------------------------
\* Configuration (main.py:42-44), scaled down so that the state space is
\* finite and small; the source values are 5000, 4 and 15.
\* ---------------------------------------------------------------------
MAX_KEYWORDS == 3

MAX_DEPTH == 1

KEYWORD_THREADS == 2

\* main.py:51, scaled down from 50.
VIDEO_THREADS == 2

\* The strings the suggestion service can return.  "Mp3" contains a
\* FILTER_KEYWORDS entry once lower-cased, the others do not.
Terms == {"s", "t", "a", "b", "Mp3"}

\* The characters of each term (TLC cannot index into a string).
Chars(term) ==
    CASE term = "s" -> <<"s">>
      [] term = "t" -> <<"t">>
      [] term = "a" -> <<"a">>
      [] term = "b" -> <<"b">>
      [] term = "Mp3" -> <<"M", "p", "3">>

\* The seed lists InputKeywords.txt may hold.
SeedLists == {<<"s">>, <<"s", "t">>}

\* Number of candidates the suggestion service returns over a run of Spec;
\* once they are used up every call of get_suggestions comes back empty, as
\* it does when all endpoints fail.
MaxCandidates == 4

\* The strings the service draws from in FairSpec, where it never runs dry.
LiveTerms == {"s", "a"}

\* FILTER_KEYWORDS, as character sequences (two of the eight entries).
FILTER_KEYWORDS == {<<"m", "p", "3">>, <<"x", "x", "x">>}

\* str.lower() on one character.
LowerChar(c) ==
    CASE c = "M" -> "m"
      [] c = "A" -> "a"
      [] c = "B" -> "b"
      [] OTHER -> c

\* str.lower()
Lower(cs) == [i \in 1..Len(cs) |-> LowerChar(cs[i])]

\* `f in k` on strings: f occurs in k as a contiguous substring.
IsSubstring(f, k) ==
    \E i \in 0..(Len(k) - Len(f)) :
        \A j \in 1..Len(f) : k[i + j] = f[j]

is_allowed(keyword) ==
    LET k == Lower(Chars(keyword))
    IN  ~ \E f \in FILTER_KEYWORDS : IsSubstring(f, k)

Workers == 1..KEYWORD_THREADS

\* dict.get(key, default)
DictGet(d, key, default) == IF key \in DOMAIN d THEN d[key] ELSE default

\* d[key] = value
DictPut(d, key, value) ==
    [x \in (DOMAIN d) \cup {key} |-> IF x = key THEN value ELSE d[x]]

\* What one call of get_suggestions can return: any set of strings of the
\* service's universe (the empty set when every endpoint failed).
Responses(u) == SUBSET u

\* The candidates the for loop of keyword_worker does not skip.
Allowed(r) == {s \in r : is_allowed(s)}

VARIABLES
    seeds,          \* SEED_KEYWORDS
    mainPc,         \* position of scrape_keywords
    seedIdx,        \* index of the seeding loop of scrape_keywords
    task_queue,     \* queue.Queue(), FIFO
    collected,      \* set()
    depth_map,      \* dict term -> depth
    keyword_source, \* dict term -> origin seed
    keyword_tree,   \* defaultdict(list): parent -> children, as a bag
    pc,             \* position of each keyword_worker
    kw,             \* local kw of each worker
    depth,          \* local depth of each worker
    suggestions,    \* candidates the for loop has still to visit (the ones
                    \* is_allowed rejects are skipped without a shared access)
    keywords_csv,   \* the rows save_keywords writes to keywords.csv (none
                    \* before it runs, and none when nothing was collected)
    \* history of the run
    queried,        \* term -> number of get_suggestions calls for it
    claimed,        \* term -> number of times taken from task_queue
    firstTime,      \* term -> number of times the mark step added it
    overDepth,      \* terms that were assigned depth MAX_DEPTH + 1
    universe,       \* the strings the suggestion service draws from
    limited,        \* whether the service runs dry
    budget,         \* if limited: candidates the service can still return
    \* ---- harvest stage ----
    keywords,           \* the lines of the keywords file
    file_exists,        \* os.path.exists(output_file)
    output_file,        \* the rows of the output CSV, header included
    processed_keywords, \* the resume ledger of scrape_videos
    keywords_to_do,     \* the list handed to executor.map
    harvestPc,          \* position of scrape_videos
    nextTask,           \* index of the next task no pool thread has taken
    hpc,                \* position of each pool thread
    hkw,                \* `keyword` of the running scrape_single_keyword
    attempt,            \* `attempt` of its retry loop
    results_to_save,    \* its results_to_save
    searched,           \* history: term -> number of extract_info calls
    startFile,          \* history: the output file when the harvest began
    calls,              \* history: term -> outcomes of its extract_info calls
    \* ---- interrupt of the expansion stage ----
    interrupted,        \* KeyboardInterrupt was raised in scrape_keywords
    \* ---- is_video_relevant ----
    keyword_words,      \* the words the keyword argument is made of
    title_words,        \* the words the video_title argument is made of
    raw_form,           \* the argument given in upper case inside whitespace
    VIDEO_STRICTNESS,   \* "strict" or "relaxed"
    relevant,           \* the value returned, none before the call
    \* ---- get_suggestions ----
    gsPc,               \* position of get_suggestions
    endpoint,           \* index of `for endpoint in ENDPOINTS`
    gs_attempt,         \* `attempt` of `for attempt in range(3)`
    results,            \* `results`
    requests            \* history: the requests issued and their answers

vars == <<seeds, mainPc, seedIdx, task_queue, collected, depth_map,
          keyword_source, keyword_tree, pc, kw, depth, suggestions,
          keywords_csv, queried, claimed, firstTime, overDepth, universe, limited,
          budget, keywords, file_exists, output_file, processed_keywords,
          keywords_to_do, harvestPc, nextTask, hpc, hkw, attempt,
          results_to_save, searched, startFile, calls, interrupted,
          keyword_words, title_words, raw_form, VIDEO_STRICTNESS, relevant,
          gsPc, endpoint, gs_attempt, results, requests>>

\* the variables of is_video_relevant
scorer == <<keyword_words, title_words, raw_form, VIDEO_STRICTNESS, relevant>>

\* the variables of get_suggestions
client == <<gsPc, endpoint, gs_attempt, results, requests>>

\* what no step of the expansion stage changes
hvars == <<keywords, file_exists, output_file, processed_keywords,
           keywords_to_do, harvestPc, nextTask, hpc, hkw, attempt,
           results_to_save, searched, startFile, calls, interrupted,
           scorer, client>>

shared == <<task_queue, collected, depth_map, keyword_source, keyword_tree>>

locals == <<pc, kw, depth, suggestions>>

service == <<universe, limited, budget>>

history == <<queried, claimed, firstTime, overDepth, service>>

\* the value of a local that holds no term
None == "None"

InitExpansion ==
    /\ seeds \in SeedLists
    /\ mainPc = "seeding"
    /\ seedIdx = 1
    /\ task_queue = <<>>
    /\ collected = {}
    /\ depth_map = <<>>
    /\ keyword_source = <<>>
    /\ keyword_tree = <<>>
    /\ pc = [w \in Workers |-> "get"]
    /\ kw = [w \in Workers |-> None]
    /\ depth = [w \in Workers |-> 0]
    /\ suggestions = [w \in Workers |-> {}]
    /\ keywords_csv = {}
    /\ queried = [t \in Terms |-> 0]
    /\ claimed = [t \in Terms |-> 0]
    /\ firstTime = [t \in Terms |-> 0]
    /\ overDepth = {}
    /\ interrupted = FALSE

\* The terms the harvest stage is run on.
HarvestTerms == {"alpha", "beta", "gamma"}

HWorkers == 1..VIDEO_THREADS

\* The harvest stage has not begun.
HarvestIdle ==
    /\ keywords = <<>>
    /\ file_exists = FALSE
    /\ output_file = <<>>
    /\ processed_keywords = {}
    /\ keywords_to_do = <<>>
    /\ harvestPc = "off"
    /\ nextTask = 1
    /\ hpc = [w \in HWorkers |-> "idle"]
    /\ hkw = [w \in HWorkers |-> None]
    /\ attempt = [w \in HWorkers |-> 0]
    /\ results_to_save = [w \in HWorkers |-> <<>>]
    /\ searched = [t \in HarvestTerms |-> 0]
    /\ startFile = [exists |-> FALSE, rows |-> <<>>]
    /\ calls = [t \in HarvestTerms |-> <<>>]

\* is_video_relevant is not called.
ScorerIdle ==
    /\ keyword_words = <<>>
    /\ title_words = <<>>
    /\ raw_form = "none"
    /\ VIDEO_STRICTNESS = "strict"
    /\ relevant = {}

\* get_suggestions is modelled by its return value alone.
ClientIdle ==
    /\ gsPc = "off"
    /\ endpoint = 1
    /\ gs_attempt = 0
    /\ results = {}
    /\ requests = <<>>

\* The service returns MaxCandidates candidates in all.
Init ==
    /\ InitExpansion
    /\ HarvestIdle
    /\ ScorerIdle
    /\ ClientIdle
    /\ universe = Terms
    /\ limited = TRUE
    /\ budget = MaxCandidates

\* The service answers every call, from a small universe.
InitLive ==
    /\ InitExpansion
    /\ HarvestIdle
    /\ ScorerIdle
    /\ ClientIdle
    /\ universe = LiveTerms
    /\ limited = FALSE
    /\ budget = 0

\* scrape_keywords, one pass of `for kw in SEED_KEYWORDS`; after the last
\* seed the executor starts the workers.
EnqueueSeed ==
    /\ mainPc = "seeding"
    /\ seedIdx <= Len(seeds)
    /\ LET s == seeds[seedIdx] IN
        /\ depth_map' = DictPut(depth_map, s, 0)
        /\ keyword_source' = DictPut(keyword_source, s, s)
        /\ task_queue' = Append(task_queue, s)
    /\ seedIdx' = seedIdx + 1
    /\ mainPc' = IF seedIdx = Len(seeds) THEN "running" ELSE "seeding"
    /\ UNCHANGED <<hvars, seeds, collected, keyword_tree, locals, keywords_csv,
                   history>>

\* The worker leaves its current term: back to `while True` (to = "get") or
\* out of the function (to = "done").  Its locals are dead from here on.
Leave(w, to) ==
    /\ pc' = [pc EXCEPT ![w] = to]
    /\ kw' = [kw EXCEPT ![w] = None]
    /\ depth' = [depth EXCEPT ![w] = 0]
    /\ suggestions' = [suggestions EXCEPT ![w] = {}]

\* kw = task_queue.get(timeout=3), an item is there
Claim(w) ==
    /\ mainPc = "running"
    /\ pc[w] = "get"
    /\ task_queue # <<>>
    /\ kw' = [kw EXCEPT ![w] = Head(task_queue)]
    /\ task_queue' = Tail(task_queue)
    /\ claimed' = [claimed EXCEPT ![Head(task_queue)] = @ + 1]
    /\ pc' = [pc EXCEPT ![w] = "depth"]
    /\ UNCHANGED <<hvars, seeds, mainPc, seedIdx, collected, depth_map,
                   keyword_source, keyword_tree, depth, suggestions,
                   keywords_csv, queried, firstTime, overDepth, service>>

\* `except: continue` in place of `except: return`
OnEmptyRetry == "get"

\* `except: return` of the claim: where the worker goes on queue.Empty
OnEmpty == "done"

\* task_queue.get(timeout=3) raises queue.Empty: the worker returns
ClaimEmpty(w) ==
    /\ mainPc = "running"
    /\ pc[w] = "get"
    /\ task_queue = <<>>
    /\ Leave(w, OnEmpty)
    /\ UNCHANGED <<hvars, seeds, mainPc, seedIdx, shared, keywords_csv, history>>

\* depth = depth_map.get(kw, 0), read without the lock
ReadDepth(w) ==
    /\ pc[w] = "depth"
    /\ depth' = [depth EXCEPT ![w] = DictGet(depth_map, kw[w], 0)]
    /\ pc' = [pc EXCEPT ![w] = "check"]
    /\ UNCHANGED <<hvars, seeds, mainPc, seedIdx, shared, kw, suggestions,
                   keywords_csv, history>>

\* the cap test of keyword_worker
CapReached(coll) == Cardinality(coll) >= MAX_KEYWORDS

\* the depth test off by one
TooDeepAtLimit(d) == d >= MAX_DEPTH

\* the depth test of keyword_worker
TooDeep(d) == d > MAX_DEPTH

\* if len(collected) >= MAX_KEYWORDS: return / if depth > MAX_DEPTH: continue
CheckLimits(w) ==
    /\ pc[w] = "check"
    /\ IF CapReached(collected) THEN Leave(w, "done")
       ELSE IF TooDeep(depth[w]) THEN Leave(w, "get")
       ELSE /\ pc' = [pc EXCEPT ![w] = "query"]
            /\ UNCHANGED <<kw, depth, suggestions>>
    /\ UNCHANGED <<hvars, seeds, mainPc, seedIdx, shared, keywords_csv, history>>

\* suggestions = get_suggestions(kw)
GetSuggestions(w) ==
    /\ pc[w] = "query"
    /\ \E r \in Responses(universe) :
        /\ limited => Cardinality(r) <= budget
        /\ suggestions' = [suggestions EXCEPT ![w] = Allowed(r)]
        /\ budget' = IF limited THEN budget - Cardinality(r) ELSE budget
    /\ queried' = [queried EXCEPT ![kw[w]] = @ + 1]
    /\ pc' = [pc EXCEPT ![w] = "mark"]
    /\ UNCHANGED <<hvars, seeds, mainPc, seedIdx, shared, kw, depth, keywords_csv,
                   claimed, firstTime, overDepth, universe, limited>>

\* the mark step without its membership test
IsFirstTimeAlways(term, coll) == TRUE

\* `kw not in collected` of the mark step
IsFirstTime(term, coll) == term \notin coll

\* with lock: if kw not in collected: collected.add(kw); print(...)
\* and, with nothing to iterate over, back to `while True`
MarkCollected(w) ==
    /\ pc[w] = "mark"
    /\ IF IsFirstTime(kw[w], collected)
       THEN /\ collected' = collected \cup {kw[w]}
            /\ firstTime' = [firstTime EXCEPT ![kw[w]] = @ + 1]
       ELSE UNCHANGED <<collected, firstTime>>
    /\ IF suggestions[w] = {} THEN Leave(w, "get")
       ELSE /\ pc' = [pc EXCEPT ![w] = "children"]
            /\ UNCHANGED <<kw, depth, suggestions>>
    /\ UNCHANGED <<hvars, seeds, mainPc, seedIdx, task_queue, depth_map,
                   keyword_source, keyword_tree, keywords_csv, queried,
                   claimed, overDepth, service>>

\* depth_map[s] = depth + 1
NewDepth(dm, s, d) == DictPut(dm, s, d + 1)

\* NewSource without its guard: every discovery writes the origin.
NewSourceOverwrite(ks, s, parent) == DictPut(ks, s, DictGet(ks, parent, parent))

\* NewSource that records the parent, not the parent's origin.
NewSourceParent(ks, s, parent) ==
    IF s \notin DOMAIN ks THEN DictPut(ks, s, parent)
    ELSE ks

\* NewSource that never records an origin.
NewSourceNever(ks, s, parent) == ks

\* if s not in keyword_source: keyword_source[s] = keyword_source.get(kw, kw)
NewSource(ks, s, parent) ==
    IF s \notin DOMAIN ks THEN DictPut(ks, s, DictGet(ks, parent, parent))
    ELSE ks

\* keyword_tree[kw].append(s)
NewTree(kt, parent, s) ==
    DictPut(kt, parent, DictGet(kt, parent, EmptyBag) (+) SetToBag({s}))

\* `s not in collected` of the child step
IsNew(s, coll) == s \notin coll

\* One pass of `for s in suggestions` (list(set) iterates in any order):
\* with lock: keyword_tree[kw].append(s); if s not in collected:
\* depth_map[s] = depth + 1; ...; task_queue.put(s)
AcceptChild(w) ==
    /\ pc[w] = "children"
    /\ \E s \in suggestions[w] :
        /\ keyword_tree' = NewTree(keyword_tree, kw[w], s)
        /\ IF IsNew(s, collected)
           THEN /\ depth_map' = NewDepth(depth_map, s, depth[w])
                /\ keyword_source' = NewSource(keyword_source, s, kw[w])
                /\ task_queue' = Append(task_queue, s)
                /\ overDepth' = IF depth[w] + 1 = MAX_DEPTH + 1
                                THEN overDepth \cup {s} ELSE overDepth
           ELSE UNCHANGED <<depth_map, keyword_source, task_queue, overDepth>>
        /\ IF suggestions[w] = {s} THEN Leave(w, "get")
           ELSE /\ suggestions' = [suggestions EXCEPT ![w] = @ \ {s}]
                /\ UNCHANGED <<pc, kw, depth>>
    /\ UNCHANGED <<hvars, seeds, mainPc, seedIdx, collected, keywords_csv, queried,
                   claimed, firstTime, service>>

\* d.get(key, None) as a cell of the table: {value}, or {} for None
Cell(d, key) == IF key \in DOMAIN d THEN {d[key]} ELSE {}

\* the rows of keywords.csv: (Keyword, Depth, Origin_Seed)
KeywordRows ==
    {<<k, Cell(depth_map, k), Cell(keyword_source, k)>> : k \in collected}

\* every f.result() has returned; finally: save_keywords()
SaveKeywords ==
    /\ mainPc = "running"
    /\ \A w \in Workers : pc[w] = "done"
    /\ mainPc' = "saved"
    /\ keywords_csv' = KeywordRows
    /\ UNCHANGED <<hvars, seeds, seedIdx, shared, locals, history>>

WorkerStep(w) ==
    \/ Claim(w)
    \/ ClaimEmpty(w)
    \/ ReadDepth(w)
    \/ CheckLimits(w)
    \/ GetSuggestions(w)
    \/ MarkCollected(w)
    \/ AcceptChild(w)

Next ==
    \/ EnqueueSeed
    \/ \E w \in Workers : WorkerStep(w)
    \/ SaveKeywords

Spec == Init /\ [][Next]_vars

\* The threads of the pool are scheduled fairly, every call of
\* get_suggestions returns (bounded attempts, each with a timeout) and
\* task_queue.get gives up after 3 seconds.
FairSpec ==
    /\ InitLive
    /\ [][Next]_vars
    /\ WF_vars(EnqueueSeed)
    /\ \A w \in Workers : WF_vars(WorkerStep(w))
    /\ WF_vars(SaveKeywords)

\* KeyboardInterrupt is raised in scrape_keywords while it waits on
\* f.result().  The exception leaves the with block through
\* executor.__exit__, which is shutdown(wait=True): the except and finally
\* clauses (SaveKeywords) run once every worker has returned.  No worker
\* reads anything the interrupt changes.
Interrupt ==
    /\ mainPc = "running"
    /\ ~ interrupted
    /\ interrupted' = TRUE
    /\ UNCHANGED <<seeds, mainPc, seedIdx, shared, locals, keywords_csv,
                   history, keywords, file_exists, output_file,
                   processed_keywords, keywords_to_do, harvestPc, nextTask,
                   hpc, hkw, attempt, results_to_save, searched, startFile,
                   calls, scorer, client>>

InterruptNext == Next \/ Interrupt

\* The expansion stage with an interrupt at any moment of the pool's run.
SpecInterrupt == Init /\ [][InterruptNext]_vars

\* ---------------------------------------------------------------------
\* The harvest stage: scrape_videos and scrape_single_keyword, for runs in
\* which yt_dlp is importable and the keywords file exists.  A row of the
\* output is (Keyword, Rank, Video Title); the four columns after the title
\* are left out.
\* ---------------------------------------------------------------------

xvars == <<seeds, mainPc, seedIdx, shared, locals, keywords_csv, history,
           interrupted, scorer, client>>

\* the header row written by scrape_videos
Header == <<"Keyword", "Rank", "Video Title">>

\* an entry without a usable title (a falsy entry or a falsy entry['title'])
NoTitle == ""

\* The keyword lists the keywords file may hold.
KeywordLists == {<<"alpha", "beta", "gamma">>, <<"gamma", "alpha">>, <<"beta">>}

\* Rows earlier runs of scrape_single_keyword appended.
AlphaRows == <<(<<"alpha", 1, "T1">>), (<<"alpha", 2, "T2">>)>>

BetaRows == <<(<<"beta", 1, "T1">>)>>

\* The output file found at the start: absent, empty, the header alone, the
\* header with the rows of earlier terms, and the same with a blank line.
PriorOutputs ==
    { [exists |-> FALSE, rows |-> <<>>],
      [exists |-> TRUE, rows |-> <<>>],
      [exists |-> TRUE, rows |-> <<Header>>],
      [exists |-> TRUE, rows |-> <<Header>> \o AlphaRows],
      [exists |-> TRUE, rows |-> <<Header>> \o AlphaRows \o BetaRows],
      [exists |-> TRUE, rows |-> <<Header>> \o AlphaRows \o <<(<<>>)>> \o BetaRows] }

\* The entry lists ydl.extract_info may return (titles, in rank order).
EntryLists == {<<>>, <<"T1">>, <<NoTitle, "T1", "T2">>}

\* str(e) of the exceptions extract_info may raise, as words.
ErrorMessages ==
    { <<"HTTP", "Error", "429">>,
      <<"HTTP", "Error", "403", "Forbidden">>,
      <<"Forbidden">>,
      <<"HTTP", "Error", "403", "after", "429">>,
      <<"timed", "out">> }

InitHarvest ==
    /\ seeds = <<>>
    /\ mainPc = "saved"
    /\ seedIdx = 1
    /\ task_queue = <<>>
    /\ collected = {}
    /\ depth_map = <<>>
    /\ keyword_source = <<>>
    /\ keyword_tree = <<>>
    /\ pc = [w \in Workers |-> "done"]
    /\ kw = [w \in Workers |-> None]
    /\ depth = [w \in Workers |-> 0]
    /\ suggestions = [w \in Workers |-> {}]
    /\ keywords_csv = {}
    /\ queried = [t \in Terms |-> 0]
    /\ claimed = [t \in Terms |-> 0]
    /\ firstTime = [t \in Terms |-> 0]
    /\ overDepth = {}
    /\ interrupted = FALSE
    /\ ScorerIdle
    /\ ClientIdle
    /\ universe = {}
    /\ limited = TRUE
    /\ budget = 0
    /\ keywords \in KeywordLists
    /\ \E prior \in PriorOutputs :
        /\ file_exists = prior.exists
        /\ output_file = prior.rows
        /\ startFile = prior
    /\ processed_keywords = {}
    /\ keywords_to_do = <<>>
    /\ harvestPc = "resume"
    /\ nextTask = 1
    /\ hpc = [w \in HWorkers |-> "idle"]
    /\ hkw = [w \in HWorkers |-> None]
    /\ attempt = [w \in HWorkers |-> 0]
    /\ results_to_save = [w \in HWorkers |-> <<>>]
    /\ searched = [t \in HarvestTerms |-> 0]
    /\ calls = [t \in HarvestTerms |-> <<>>]

\* The resume logic on an existing file: next(reader) drops the first row
\* (StopIteration on an empty file is swallowed), then every non-empty row
\* gives row[0].
ReadLedger(rows) ==
    IF rows = <<>> THEN {}
    ELSE {rows[i][1] : i \in {j \in 2..Len(rows) : rows[j] # <<>>}}

\* keywords_to_do without the ledger test
ToDoAll(ks, processed) == ks

\* keywords_to_do = [k for k in keywords if k not in processed_keywords]
ToDo(ks, processed) == SelectSeq(ks, LAMBDA k : k \notin processed)

\* scrape_videos up to the start of the pool: the resume logic, or the
\* creation of the file with its header, then keywords_to_do
ResumeLogic ==
    /\ harvestPc = "resume"
    /\ IF file_exists
       THEN /\ processed_keywords' = ReadLedger(output_file)
            /\ UNCHANGED <<output_file, file_exists>>
       ELSE /\ processed_keywords' = {}
            /\ output_file' = <<Header>>
            /\ file_exists' = TRUE
    /\ keywords_to_do' = ToDo(keywords, processed_keywords')
    /\ harvestPc' = "running"
    /\ UNCHANGED <<xvars, keywords, nextTask, hpc, hkw, attempt,
                   results_to_save, searched, startFile, calls>>

\* a pool thread takes the next call of scrape_single_keyword
TakeTask(w) ==
    /\ harvestPc = "running"
    /\ hpc[w] = "idle"
    /\ nextTask <= Len(keywords_to_do)
    /\ hkw' = [hkw EXCEPT ![w] = keywords_to_do[nextTask]]
    /\ nextTask' = nextTask + 1
    /\ attempt' = [attempt EXCEPT ![w] = 0]
    /\ results_to_save' = [results_to_save EXCEPT ![w] = <<>>]
    /\ hpc' = [hpc EXCEPT ![w] = "search"]
    /\ UNCHANGED <<xvars, keywords, file_exists, output_file,
                   processed_keywords, keywords_to_do, harvestPc, searched,
                   startFile, calls>>

\* the call returns: the thread is free again
Return(w) ==
    /\ hpc' = [hpc EXCEPT ![w] = "idle"]
    /\ hkw' = [hkw EXCEPT ![w] = None]
    /\ attempt' = [attempt EXCEPT ![w] = 0]
    /\ results_to_save' = [results_to_save EXCEPT ![w] = <<>>]

\* the rows built from the entries: entries without a title are dropped,
\* rank_counter numbers the others from 1
RECURSIVE BuildRows(_, _, _)
BuildRows(keyword, entries, rank_counter) ==
    IF entries = <<>> THEN <<>>
    ELSE IF Head(entries) = NoTitle
         THEN BuildRows(keyword, Tail(entries), rank_counter)
         ELSE <<(<<keyword, rank_counter, Head(entries)>>)>>
              \o BuildRows(keyword, Tail(entries), rank_counter + 1)

\* `word in str(e)`
Mentions(msg, word) == IsSubstring(<<word>>, msg)

\* the outcome of an extract_info call that raised nothing
NoError == <<>>

\* the except branch re-raises: the pool thread is lost
AbandonRaising(w) ==
    /\ hpc' = [hpc EXCEPT ![w] = "dead"]
    /\ UNCHANGED <<hkw, attempt, results_to_save>>

\* the `return` statements of the except branch: the call ends, nothing is
\* raised into the pool
Abandon(w) == Return(w)

\* max_retries of scrape_single_keyword
max_retries == 3

\* ydl.extract_info(query) returns: the rows are built, the loop is left
SearchOk(w) ==
    /\ hpc[w] = "search"
    /\ \E entries \in EntryLists :
        results_to_save' = [results_to_save EXCEPT ![w] = BuildRows(hkw[w], entries, 1)]
    /\ searched' = [searched EXCEPT ![hkw[w]] = @ + 1]
    /\ calls' = [calls EXCEPT ![hkw[w]] = Append(@, NoError)]
    /\ hpc' = [hpc EXCEPT ![w] = "write"]
    /\ UNCHANGED <<xvars, keywords, file_exists, output_file,
                   processed_keywords, keywords_to_do, harvestPc, nextTask,
                   hkw, attempt, startFile>>

\* the except branch without its "429" test
ThrottledNever(msg) == FALSE

\* if "429" in str(e)
Throttled(msg) == Mentions(msg, "429")

\* if "403" in str(e) or "Forbidden" in str(e)
Denied(msg) == Mentions(msg, "403") \/ Mentions(msg, "Forbidden")

\* the retry test off by one
MayRetryOnceMore(a) == a < max_retries

\* if attempt < max_retries - 1
MayRetry(a) == a < max_retries - 1

\* ydl.extract_info(query) raises: the except branch of the retry loop
SearchFails(w) ==
    /\ hpc[w] = "search"
    /\ searched' = [searched EXCEPT ![hkw[w]] = @ + 1]
    /\ \E msg \in ErrorMessages :
        /\ calls' = [calls EXCEPT ![hkw[w]] = Append(@, msg)]
        /\ IF Throttled(msg) THEN Abandon(w)
           ELSE IF Denied(msg) /\ MayRetry(attempt[w])
           THEN /\ attempt' = [attempt EXCEPT ![w] = @ + 1]
                /\ UNCHANGED <<hpc, hkw, results_to_save>>
           ELSE Abandon(w)
    /\ UNCHANGED <<xvars, keywords, file_exists, output_file,
                   processed_keywords, keywords_to_do, harvestPc, nextTask,
                   startFile>>

\* the rows written one at a time, without csv_lock
WriteRowsUnlocked(w) ==
    /\ hpc[w] = "write"
    /\ IF results_to_save[w] = <<>>
       THEN Return(w) /\ UNCHANGED output_file
       ELSE /\ output_file' = Append(output_file, Head(results_to_save[w]))
            /\ results_to_save' = [results_to_save EXCEPT ![w] = Tail(@)]
            /\ UNCHANGED <<hpc, hkw, attempt>>
    /\ UNCHANGED <<xvars, keywords, file_exists, processed_keywords,
                   keywords_to_do, harvestPc, nextTask, searched, startFile,
                   calls>>

\* if results_to_save: with csv_lock: writer.writerows(results_to_save)
WriteRows(w) ==
    /\ hpc[w] = "write"
    /\ output_file' = output_file \o results_to_save[w]
    /\ Return(w)
    /\ UNCHANGED <<xvars, keywords, file_exists, processed_keywords,
                   keywords_to_do, harvestPc, nextTask, searched, startFile,
                   calls>>

\* the with block of the executor is left: every call has returned
FinishHarvest ==
    /\ harvestPc = "running"
    /\ nextTask > Len(keywords_to_do)
    /\ \A w \in HWorkers : hpc[w] = "idle"
    /\ harvestPc' = "finished"
    /\ UNCHANGED <<xvars, keywords, file_exists, output_file,
                   processed_keywords, keywords_to_do, nextTask, hpc, hkw,
                   attempt, results_to_save, searched, startFile, calls>>

HarvestStep(w) ==
    \/ TakeTask(w)
    \/ SearchOk(w)
    \/ SearchFails(w)
    \/ WriteRows(w)

HarvestNext ==
    \/ ResumeLogic
    \/ \E w \in HWorkers : HarvestStep(w)
    \/ FinishHarvest

SpecHarvest == InitHarvest /\ [][HarvestNext]_vars

\* Longest keyword list of the harvest under fair scheduling.
MaxLiveKeywords == 2

InitHarvestLive == InitHarvest /\ Len(keywords) <= MaxLiveKeywords

\* The harvest under fair scheduling: scrape_videos runs on, and a pool
\* thread that can take a step takes one (every request and every sleep of
\* scrape_single_keyword ends).
FairHarvest ==
    /\ InitHarvestLive
    /\ [][HarvestNext]_vars
    /\ WF_vars(ResumeLogic)
    /\ \A w \in HWorkers : WF_vars(HarvestStep(w))
    /\ WF_vars(FinishHarvest)

\* ---------------------------------------------------------------------
\* The relevance scorer: normalize_text and is_video_relevant, a pure
\* function of the keyword, the title and VIDEO_STRICTNESS.  Strings are
\* sequences of characters; the only whitespace character is the space.
\* ---------------------------------------------------------------------

\* The expansion stage is over and has left nothing behind.
ExpansionIdle ==
    /\ seeds = <<>>
    /\ mainPc = "saved"
    /\ seedIdx = 1
    /\ task_queue = <<>>
    /\ collected = {}
    /\ depth_map = <<>>
    /\ keyword_source = <<>>
    /\ keyword_tree = <<>>
    /\ pc = [w \in Workers |-> "done"]
    /\ kw = [w \in Workers |-> None]
    /\ depth = [w \in Workers |-> 0]
    /\ suggestions = [w \in Workers |-> {}]
    /\ keywords_csv = {}
    /\ queried = [t \in Terms |-> 0]
    /\ claimed = [t \in Terms |-> 0]
    /\ firstTime = [t \in Terms |-> 0]
    /\ overDepth = {}
    /\ interrupted = FALSE
    /\ universe = {}
    /\ limited = TRUE
    /\ budget = 0

\* The words keywords and titles are made of.
ScorerWords == {<<"a">>, <<"b">>, <<"a", "b">>, <<"b", "a">>}

\* Largest number of words of a keyword and of a title.
MaxKeywordWords == 4

MaxTitleWords == 2

WordLists(n) == UNION {[1..m -> ScorerWords] : m \in 0..n}

\* the words joined by single spaces
RECURSIVE JoinWords(_)
JoinWords(ws) ==
    IF ws = <<>> THEN <<>>
    ELSE IF Len(ws) = 1 THEN ws[1]
    ELSE ws[1] \o <<" ">> \o JoinWords(Tail(ws))

UpperChar(c) ==
    CASE c = "a" -> "A"
      [] c = "b" -> "B"
      [] OTHER -> c

\* the string in upper case with whitespace on both sides
Shout(cs) == <<" ">> \o [i \in 1..Len(cs) |-> UpperChar(cs[i])] \o <<" ", " ">>

\* the `keyword` argument of the call
KeywordArg ==
    IF raw_form = "keyword" THEN Shout(JoinWords(keyword_words))
    ELSE JoinWords(keyword_words)

\* the `video_title` argument of the call
TitleArg ==
    IF raw_form = "title" THEN Shout(JoinWords(title_words))
    ELSE JoinWords(title_words)

\* str.lstrip()
RECURSIVE LStrip(_)
LStrip(cs) ==
    IF cs # <<>> /\ Head(cs) = " " THEN LStrip(Tail(cs)) ELSE cs

\* str.rstrip()
RECURSIVE RStrip(_)
RStrip(cs) ==
    IF cs # <<>> /\ cs[Len(cs)] = " " THEN RStrip(SubSeq(cs, 1, Len(cs) - 1))
    ELSE cs

\* str.strip()
Strip(cs) == RStrip(LStrip(cs))

\* set(str.split()): the maximal runs of non-space characters; `word` is
\* the run being read
RECURSIVE SplitWords(_, _)
SplitWords(cs, word) ==
    IF cs = <<>> THEN (IF word = <<>> THEN {} ELSE {word})
    ELSE IF Head(cs) = " "
         THEN (IF word = <<>> THEN {} ELSE {word}) \cup SplitWords(Tail(cs), <<>>)
         ELSE SplitWords(Tail(cs), Append(word, Head(cs)))

normalize_text(text) ==
    IF text = <<>> THEN <<>> ELSE Strip(Lower(text))

\* required_matches with every word of the keyword demanded
required_matches_all(k_words) == Cardinality(k_words)

\* required_matches = len(k_words) - 1 if len(k_words) > 1 else 1
required_matches(k_words) ==
    IF Cardinality(k_words) > 1 THEN Cardinality(k_words) - 1 ELSE 1

\* len(common_words) / len(k_words) >= 0.5, in integers
AtLeastHalf(common_words, k_words) == 2 * Cardinality(common_words) >= Cardinality(k_words)

is_video_relevant(keyword, video_title) ==
    LET k_norm == normalize_text(keyword)
        t_norm == normalize_text(video_title)
        k_words == SplitWords(k_norm, <<>>)
        t_words == SplitWords(t_norm, <<>>)
        common_words == k_words \cap t_words
    IN  IF IsSubstring(k_norm, t_norm) THEN TRUE
        ELSE IF k_words = {} THEN FALSE
        ELSE IF VIDEO_STRICTNESS = "strict"
             THEN Cardinality(common_words) >= required_matches(k_words)
             ELSE AtLeastHalf(common_words, k_words)

InitScorer ==
    /\ ExpansionIdle
    /\ HarvestIdle
    /\ ClientIdle
    /\ keyword_words \in WordLists(MaxKeywordWords)
    /\ title_words \in WordLists(MaxTitleWords)
    /\ raw_form \in {"none", "keyword", "title"}
    /\ VIDEO_STRICTNESS \in {"strict", "relaxed"}
    /\ relevant = {}

\* one call of is_video_relevant
Score ==
    /\ relevant = {}
    /\ relevant' = {is_video_relevant(KeywordArg, TitleArg)}
    /\ UNCHANGED <<seeds, mainPc, seedIdx, shared, locals, keywords_csv,
                   history, interrupted, client, keywords, file_exists,
                   output_file, processed_keywords, keywords_to_do, harvestPc,
                   nextTask, hpc, hkw, attempt, results_to_save, searched,
                   startFile, calls, keyword_words, title_words, raw_form,
                   VIDEO_STRICTNESS>>

ScorerNext == Score

SpecScorer == InitScorer /\ [][ScorerNext]_vars

\* ---------------------------------------------------------------------
\* The suggestion client: one call of get_suggestions, request by request.
\* ---------------------------------------------------------------------

\* ENDPOINTS, by the hl parameter of the two URLs
ENDPOINTS == <<"en-IN", "hi">>

\* The strings the endpoints suggest.
ClientTerms == {"x", "y"}

\* What requests.get can come back with: a 200 whose text json.loads decodes
\* to a payload with the items of data[1], a 200 whose text it cannot decode,
\* a 403, another status, and status 0 for an exception raised by
\* requests.get itself (a timeout, a refused connection).
Answers ==
    {[status |-> 200, parseable |-> TRUE, items |-> c] : c \in SUBSET ClientTerms}
    \cup {[status |-> 200, parseable |-> FALSE, items |-> {}],
          [status |-> 403, parseable |-> FALSE, items |-> {}],
          [status |-> 500, parseable |-> FALSE, items |-> {}],
          [status |-> 0, parseable |-> FALSE, items |-> {}]}

InitClient ==
    /\ ExpansionIdle
    /\ HarvestIdle
    /\ ScorerIdle
    /\ gsPc = "request"
    /\ endpoint = 1
    /\ gs_attempt = 0
    /\ results = {}
    /\ requests = <<>>

\* the attempt loop is over: the next pass of `for endpoint in ENDPOINTS`,
\* or `return list(results)` after the last one
NextEndpoint ==
    /\ gs_attempt' = 0
    /\ IF endpoint < Len(ENDPOINTS)
       THEN endpoint' = endpoint + 1 /\ gsPc' = gsPc
       ELSE endpoint' = endpoint /\ gsPc' = "returned"

\* `return list(results)` in the place of `break`
BreakReturns ==
    /\ gs_attempt' = 0
    /\ endpoint' = endpoint
    /\ gsPc' = "returned"

\* `break`: leaves `for attempt in range(3)`, not the loop over ENDPOINTS
Break == NextEndpoint

\* the next pass of `for attempt in range(3)`, after the sleep
NextAttempt ==
    IF gs_attempt < 2
    THEN gs_attempt' = gs_attempt + 1 /\ UNCHANGED <<endpoint, gsPc>>
    ELSE NextEndpoint

\* one pass of the attempt loop: a request and the handling of its answer
Request ==
    /\ gsPc = "request"
    /\ \E answer \in Answers :
        /\ requests' = Append(requests, [endpoint |-> endpoint, answer |-> answer])
        /\ IF answer.status = 200
           THEN IF answer.parseable
                THEN results' = results \cup answer.items /\ Break
                ELSE UNCHANGED results /\ NextAttempt
           ELSE IF answer.status = 403 \/ answer.status = 0
                THEN UNCHANGED results /\ NextAttempt
                ELSE UNCHANGED results /\ Break
    /\ UNCHANGED <<seeds, mainPc, seedIdx, shared, locals, keywords_csv,
                   history, interrupted, scorer, keywords, file_exists,
                   output_file, processed_keywords, keywords_to_do, harvestPc,
                   nextTask, hpc, hkw, attempt, results_to_save, searched,
                   startFile, calls>>

ClientNext == Request

SpecClient == InitClient /\ [][ClientNext]_vars

\* ---------------------------------------------------------------------
\* Properties of the expansion stage
\* ---------------------------------------------------------------------

\* number of entries of the queue that hold term t
Pending(t) == Cardinality({i \in DOMAIN task_queue : task_queue[i] = t})

\* the lineage edge (parent, child) is recorded
HasEdge(parent, child) ==
    parent \in DOMAIN keyword_tree /\ BagIn(child, keyword_tree[parent])

PoolTerminated == mainPc = "running" /\ \A w \in Workers : pc[w] = "done"

\* C1: once depth(t) is assigned, by seeding or by a discovery, no step
\* changes it.
C1_DepthNeverChanges ==
    [][\A t \in DOMAIN depth_map :
          t \in DOMAIN depth_map' /\ depth_map'[t] = depth_map[t]]_vars

\* C2: once origin(t) is assigned, by seeding or by a discovery, no step
\* changes it.
C2_OriginNeverChanges ==
    [][\A t \in DOMAIN keyword_source :
          t \in DOMAIN keyword_source' /\ keyword_source'[t] = keyword_source[t]]_vars

\* A term pending twice, discovered through two parents of different origins.
C2_Witness ==
    \E t \in DOMAIN keyword_source : \E p1, p2 \in DOMAIN keyword_source :
        /\ HasEdge(p1, t) /\ HasEdge(p2, t)
        /\ keyword_source[p1] # keyword_source[p2]
        /\ Pending(t) >= 2

\* C3: the mark step adds a term, and reports "first time", at most once per
\* term over the run, and exactly once for a term two workers have marked.
C3_FirstTimeOnce ==
    \A t \in Terms :
        /\ firstTime[t] <= 1
        /\ t \in collected <=> firstTime[t] = 1

\* Two workers hold the same term and both are past the mark step.
C3_Witness ==
    \E w1, w2 \in Workers :
        /\ w1 # w2
        /\ kw[w1] = kw[w2]
        /\ pc[w1] = "children" /\ pc[w2] = "children"
        /\ firstTime[kw[w1]] = 1

\* C4: a term that was assigned depth MAX_DEPTH + 1 is not added to the
\* collected set by any later step, the service is not queried for it by any
\* later step, and it has a lineage edge from some parent.
C4_OverDepthNeverCollected ==
    [][\A t \in overDepth :
          /\ t \notin collected'
          /\ queried'[t] = queried[t]
          /\ \E p \in Terms : HasEdge(p, t)]_vars

\* C5: single seed "s", MAX_DEPTH = 1, pool terminated below the cap: the seed
\* is collected at depth 0 and each of its allowed suggestions (other than the
\* seed itself) is collected with depth 1 and origin "s".
C5_DirectSuggestionsCollected ==
    (seeds = <<"s">> /\ PoolTerminated /\ Cardinality(collected) < MAX_KEYWORDS)
    => /\ "s" \in collected
       /\ depth_map["s"] = 0
       /\ \A c \in Terms \ {"s"} :
            HasEdge("s", c) =>
                /\ c \in collected
                /\ depth_map[c] = 1
                /\ keyword_source[c] = "s"

\* C6: under fair scheduling every worker eventually exits.
C6_PoolTerminates == <>(\A w \in Workers : pc[w] = "done")

\* The pool has terminated after expanding two terms that suggest each other.
C6_Witness ==
    /\ \A w \in Workers : pc[w] = "done"
    /\ \E x, y \in Terms : x # y /\ HasEdge(x, y) /\ HasEdge(y, x)

\* C7: the collected set never holds more than MAX_KEYWORDS terms.
C7_AtMostMaxKeywords == Cardinality(collected) <= MAX_KEYWORDS

\* C8: no term is claimed twice, queried twice or pending twice.
C8_NoDuplicateWork ==
    \A t \in Terms : claimed[t] <= 1 /\ queried[t] <= 1 /\ Pending(t) <= 1

\* C9: every collected term has a depth and an origin, in the maps and in the
\* rows written to keywords.csv.
C9_CollectedHaveDepthAndOrigin ==
    /\ collected \subseteq DOMAIN depth_map
    /\ collected \subseteq DOMAIN keyword_source
    /\ \A row \in keywords_csv : row[2] # {} /\ row[3] # {}

\* The table was saved with a collected term that is not a seed.
C9_Witness ==
    /\ mainPc = "saved"
    /\ \E row \in keywords_csv : \A i \in DOMAIN seeds : seeds[i] # row[1]

\* C17: once the interrupt is delivered no worker takes a term from the
\* queue, and when the table is saved it holds the collected terms.
C17_NoClaimAfterInterrupt ==
    /\ [][interrupted => \A t \in Terms : claimed'[t] = claimed[t]]_vars
    /\ []((interrupted /\ mainPc = "saved") =>
            {row[1] : row \in keywords_csv} = collected)

\* C18: in every state every collected term has a recorded depth of at most
\* MAX_DEPTH.
C18_CollectedWithinDepth ==
    \A t \in collected : t \in DOMAIN depth_map /\ depth_map[t] <= MAX_DEPTH

SeedSet == {seeds[i] : i \in DOMAIN seeds}

\* the terms a chain of recorded lineage edges leads to from the terms of S
RECURSIVE Descendants(_)
Descendants(S) ==
    LET T == S \cup {c \in Terms : \E p \in S : HasEdge(p, c)}
    IN  IF T = S THEN S ELSE Descendants(T)

\* C19: every recorded origin is a seed, and every recorded term that is not
\* a seed is reached from its origin by a chain of recorded lineage edges.
C19_OriginIsSeedWithLineage ==
    \A t \in DOMAIN keyword_source :
        /\ keyword_source[t] \in SeedSet
        /\ t \notin SeedSet => t \in Descendants({keyword_source[t]})

\* A recorded term whose origin is not one of its parents, while another
\* seed is among its parents.
C19_Witness ==
    \E t \in DOMAIN keyword_source :
        /\ t \notin SeedSet
        /\ ~ HasEdge(keyword_source[t], t)
        /\ \E u \in SeedSet : HasEdge(u, t)

\* C20: when every worker has returned with fewer than MAX_KEYWORDS terms
\* collected, the queue is empty and every term with a recorded depth of at
\* most MAX_DEPTH is collected.
C20_QuiescenceIsComplete ==
    ((\A w \in Workers : pc[w] = "done") /\ Cardinality(collected) < MAX_KEYWORDS)
    => /\ task_queue = <<>>
       /\ \A t \in DOMAIN depth_map : depth_map[t] <= MAX_DEPTH => t \in collected

\* Every worker has returned below the cap; a term found at depth 1 is
\* collected, and a term recorded at depth MAX_DEPTH + 1 was claimed and
\* skipped.
C20_Witness ==
    /\ \A w \in Workers : pc[w] = "done"
    /\ Cardinality(collected) < MAX_KEYWORDS
    /\ \E t \in collected : depth_map[t] = 1
    /\ \E t \in DOMAIN depth_map : depth_map[t] > MAX_DEPTH /\ claimed[t] > 0

\* ---------------------------------------------------------------------
\* Properties of the harvest stage
\* ---------------------------------------------------------------------

\* the first column of the data rows of a file: every row after the first
FirstColumn(rows) ==
    {rows[i][1] : i \in {j \in 1..Len(rows) : j > 1 /\ Len(rows[j]) > 0}}

\* the rows appended by the pool threads of this run (the file holds the old
\* rows, or the header this run wrote, before them)
Appended ==
    SubSeq(output_file,
           IF startFile.exists THEN Len(startFile.rows) + 1 ELSE 2,
           Len(output_file))

\* C10: when the output existed at the start, the ledger is the first column
\* of its data rows, no term of the ledger is searched for, and no row is
\* appended for a term of the ledger.
C10_ResumeSkip ==
    (harvestPc \in {"running", "finished"} /\ startFile.exists) =>
        /\ processed_keywords = FirstColumn(startFile.rows)
        /\ \A t \in processed_keywords \cap HarvestTerms : searched[t] = 0
        /\ \A i \in DOMAIN Appended : Appended[i][1] \notin processed_keywords

\* The harvest of [alpha, beta, gamma] over an output holding alpha and beta
\* has finished, gamma was searched for and rows were appended.
C10_Witness ==
    /\ harvestPc = "finished"
    /\ keywords = <<"alpha", "beta", "gamma">>
    /\ startFile.exists
    /\ processed_keywords = {"alpha", "beta"}
    /\ searched["gamma"] > 0
    /\ Appended # <<>>

\* the rows of the output form a prefix of the rows it holds after the step
RowsKept ==
    /\ Len(output_file') >= Len(output_file)
    /\ SubSeq(output_file', 1, Len(output_file)) = output_file

\* C12: the rows appended for one term form one contiguous block whose ranks
\* are 1..k in order, and no step modifies or removes a row the output
\* already holds.
C12_AtomicCommit ==
    /\ [](\A i, j \in DOMAIN Appended :
            (i < j /\ Appended[i][1] = Appended[j][1]) =>
                \A k \in i..j : Appended[k][1] = Appended[i][1])
    /\ [](\A i \in DOMAIN Appended :
            Appended[i][2] =
                IF i > 1 /\ Appended[i - 1][1] = Appended[i][1]
                THEN Appended[i - 1][2] + 1
                ELSE 1)
    /\ [][RowsKept]_vars

\* The output held the rows of an earlier term, and both pool threads are
\* about to write two rows each.
C12_Witness ==
    /\ Len(startFile.rows) > 1
    /\ output_file = startFile.rows
    /\ \A w \in HWorkers : hpc[w] = "write" /\ Len(results_to_save[w]) = 2

\* no row of the term was appended and no pool thread holds the term
Abandoned(t) ==
    /\ \A i \in DOMAIN Appended : Appended[i][1] # t
    /\ \A w \in HWorkers : hkw[w] # t

\* C13: an extract_info call for a term that fails with a message holding
\* "429" is the last call for the term, and the term is abandoned: no row
\* of it is appended.
C13_ThrottledAbandons ==
    \A t \in HarvestTerms : \A i \in DOMAIN calls[t] :
        Mentions(calls[t][i], "429") => i = Len(calls[t]) /\ Abandoned(t)

\* A term was abandoned on a "429" at its second call while another term
\* has rows in the output.
C13_Witness ==
    \E t \in HarvestTerms :
        /\ Len(calls[t]) = 2
        /\ Mentions(calls[t][2], "429")
        /\ Appended # <<>>

\* C14: a term is searched at most 3 times; every call but the last failed
\* with a message holding "403" or "Forbidden"; after a failed third call,
\* or a failure whose message holds none of "429", "403" and "Forbidden",
\* the term is abandoned: no further call, no row appended.
C14_RetryBudget ==
    \A t \in HarvestTerms :
        /\ Len(calls[t]) <= 3
        /\ \A i \in DOMAIN calls[t] :
            LET msg == calls[t][i]
                denied == Mentions(msg, "403") \/ Mentions(msg, "Forbidden")
            IN  /\ i < Len(calls[t]) => denied /\ i < 3
                /\ (msg # NoError /\ (i = 3 \/ ~ (denied \/ Mentions(msg, "429"))))
                      => i = Len(calls[t]) /\ Abandoned(t)

\* One term was abandoned after three "Forbidden" failures and another after
\* a first failure of another kind.
C14_Witness ==
    \E t, u \in HarvestTerms :
        /\ Len(calls[t]) = 3
        /\ calls[t][3] = <<"Forbidden">>
        /\ calls[u] = <<(<<"timed", "out">>)>>
        /\ harvestPc = "finished"

\* the rows of term t among the appended rows
RowsOf(t) == SelectSeq(Appended, LAMBDA row : row[1] = t)

\* C16: the harvest eventually finishes with every term of the to-do list
\* searched for at least once, whatever the outcomes for the other terms,
\* and with the whole batch of every term whose last search succeeded in the
\* output.
C16_FailureIsolation ==
    <>(/\ harvestPc = "finished"
       /\ \A i \in DOMAIN keywords_to_do : calls[keywords_to_do[i]] # <<>>
       /\ \A t \in HarvestTerms :
            (calls[t] # <<>> /\ calls[t][Len(calls[t])] = NoError) =>
                \E entries \in EntryLists : RowsOf(t) = BuildRows(t, entries, 1))

\* The harvest of two terms has finished: the first was abandoned after
\* three 403s, the second has its two rows.
C16_Witness ==
    /\ harvestPc = "finished"
    /\ keywords_to_do = <<"gamma", "alpha">>
    /\ Len(calls["gamma"]) = 3
    /\ calls["gamma"][3] = <<"HTTP", "Error", "403", "Forbidden">>
    /\ calls["alpha"] = <<NoError>>
    /\ Len(RowsOf("alpha")) = 2

\* ---------------------------------------------------------------------
\* Properties of the relevance scorer
\* ---------------------------------------------------------------------

\* the distinct words of the keyword and those that are also title words
TermWords == {keyword_words[i] : i \in DOMAIN keyword_words}

SharedWords == TermWords \cap {title_words[i] : i \in DOMAIN title_words}

\* C11: the pair is relevant if the normalized keyword is a substring of the
\* normalized title; otherwise it is not relevant if the keyword has no
\* word; otherwise, with c the number of distinct keyword words that are
\* title words and n the number of distinct keyword words, it is relevant
\* iff c >= (n - 1 if n > 1 else 1) under "strict" and iff 2c >= n under
\* "relaxed".
C11_Relevance ==
    relevant # {} =>
        LET c == Cardinality(SharedWords)
            n == Cardinality(TermWords)
            expected ==
                IF IsSubstring(JoinWords(keyword_words), JoinWords(title_words))
                THEN TRUE
                ELSE IF n = 0 THEN FALSE
                ELSE IF VIDEO_STRICTNESS = "strict"
                     THEN c >= (IF n > 1 THEN n - 1 ELSE 1)
                     ELSE 2 * c >= n
        IN  relevant = {expected}

\* A keyword of three distinct words in upper case, two of them in a title
\* that does not contain the keyword, is relevant under "strict".
C11_Witness ==
    /\ relevant = {TRUE}
    /\ VIDEO_STRICTNESS = "strict"
    /\ raw_form = "keyword"
    /\ Cardinality(TermWords) = 3
    /\ Cardinality(SharedWords) = 2
    /\ ~ IsSubstring(JoinWords(keyword_words), JoinWords(title_words))

\* ---------------------------------------------------------------------
\* Properties of the suggestion client
\* ---------------------------------------------------------------------

\* request i was answered with HTTP 200 and a parseable payload
Usable(i) == requests[i].answer.status = 200 /\ requests[i].answer.parseable

\* C15: endpoints are tried in order, no request is issued to a later
\* endpoint once an endpoint has answered with HTTP 200 and a parseable
\* payload, and the call returns the candidates of that endpoint.
C15_ShortCircuit ==
    /\ \A i, j \in DOMAIN requests :
        i < j => requests[i].endpoint <= requests[j].endpoint
    /\ \A i, j \in DOMAIN requests :
        (i < j /\ Usable(i)) => requests[j].endpoint <= requests[i].endpoint
    /\ \A i \in DOMAIN requests :
        (gsPc = "returned" /\ Usable(i)) => results = requests[i].answer.items

\* C15, amended: endpoints are tried in order, at most 3 requests each; a
\* 200 with a parseable payload ends the requests to that endpoint only;
\* every endpoint is queried in every call, and the call returns the union
\* of the candidates of all the usable answers.
C15_EveryEndpointQueried ==
    /\ \A i, j \in DOMAIN requests :
        i < j => requests[i].endpoint <= requests[j].endpoint
    /\ \A i, j \in DOMAIN requests :
        (i < j /\ Usable(i)) => requests[i].endpoint < requests[j].endpoint
    /\ \A e \in DOMAIN ENDPOINTS :
        Cardinality({i \in DOMAIN requests : requests[i].endpoint = e}) <= 3
    /\ gsPc = "returned" =>
        /\ \A e \in DOMAIN ENDPOINTS :
            \E i \in DOMAIN requests : requests[i].endpoint = e
        /\ results =
            UNION {requests[i].answer.items : i \in {j \in DOMAIN requests : Usable(j)}}

\* The first endpoint answered its first request with "x", the second was
\* queried all the same and answered "y"; the call returned both.
C15_Witness ==
    /\ gsPc = "returned"
    /\ Len(requests) = 2
    /\ Usable(1) /\ requests[1].answer.items = {"x"}
    /\ Usable(2) /\ requests[2].answer.items = {"y"}
    /\ results = {"x", "y"}

====
